---- MODULE Spec2Model ----
(***************************************************************************)
(* Model of the safe expression evaluator and session wrapper of           *)
(* src/calculatorphyton.py: SafeEvaluator (ast.parse, _check_node, _eval), *)
(* Calculator (assign, evaluate, save, load, clear) and the repl() loop.   *)
(*                                                                         *)
(* Text (expression strings, input lines, variable names) is a sequence of *)
(* one-character strings, so that the character-level operations of the    *)
(* code (strip, isidentifier, '=' in line, split('=', 1)) and the parsing  *)
(* done by ast.parse are computed, not assumed.                            *)
(***************************************************************************)
EXTENDS Integers, Sequences, FiniteSets, TLC

\* ------------------------------------------------------------------------
\* Bounds of the model
\* ------------------------------------------------------------------------
\* operations performed on one Calculator session
MaxOps == 3
\* tokens of a generated arithmetic expression
MaxTokens == 5
\* characters of a generated REPL input line
MaxLine == 3
\* lines read by one REPL run, of the chosen lines and of the generated ones
MaxReplLines == 2
MaxTyped == 1
\* magnitude above which a number is abstracted to "huge"
MaxAbs == 4096

\* ------------------------------------------------------------------------
\* Characters and text
\* ------------------------------------------------------------------------
Digits == {"0", "1", "2", "3", "4", "5", "6", "7", "8", "9"}

DigitVal(c) ==
    CASE c = "0" -> 0 [] c = "1" -> 1 [] c = "2" -> 2 [] c = "3" -> 3
      [] c = "4" -> 4 [] c = "5" -> 5 [] c = "6" -> 6 [] c = "7" -> 7
      [] c = "8" -> 8 [] OTHER -> 9

Letters == {"a", "b", "c", "d", "e", "f", "g", "h", "i", "j", "k", "l", "m",
            "n", "o", "p", "q", "r", "s", "t", "u", "v", "w", "x", "y", "z",
            "_"}

\* s[i..], the suffix of s from position i
From(s, i) == SubSeq(s, i, Len(s))

\* str.strip(): leading and trailing blanks removed
RECURSIVE lstrip(_)
lstrip(s) == IF s # <<>> /\ Head(s) = " " THEN lstrip(Tail(s)) ELSE s

RECURSIVE rstrip(_)
rstrip(s) ==
    IF s # <<>> /\ s[Len(s)] = " " THEN rstrip(SubSeq(s, 1, Len(s) - 1)) ELSE s

strip(s) == rstrip(lstrip(s))

\* str.isidentifier()
isidentifier(s) ==
    /\ s # <<>>
    /\ s[1] \in Letters
    /\ \A i \in 1..Len(s) : s[i] \in Letters \cup Digits

\* ------------------------------------------------------------------------
\* ast.parse(expr, mode='eval'), part 1: the tokens of the text
\* ------------------------------------------------------------------------
Keywords == {<<"l", "a", "m", "b", "d", "a">>, <<"f", "o", "r">>, <<"i", "n">>}

\* length of the longest prefix of s made of characters of set cs
RECURSIVE Run(_, _)
Run(s, cs) == IF s # <<>> /\ Head(s) \in cs THEN 1 + Run(Tail(s), cs) ELSE 0

\* position of the first character c in s, 0 when absent
RECURSIVE Find(_, _)
Find(s, c) ==
    IF s = <<>> THEN 0
    ELSE IF Head(s) = c THEN 1
    ELSE LET r == Find(Tail(s), c) IN IF r = 0 THEN 0 ELSE r + 1

RECURSIVE DigitsVal(_)
DigitsVal(s) ==
    IF s = <<>> THEN 0
    ELSE 10 * DigitsVal(SubSeq(s, 1, Len(s) - 1)) + DigitVal(s[Len(s)])

TwoCharOps == {<<"*", "*">>, <<"/", "/">>, <<"=", "=">>}
OneCharOps == {"+", "-", "*", "/", "%", "(", ")", "[", "]", ",", ".", "=", ":"}

OpTok(s) == [k |-> "op", s |-> s]

RECURSIVE Tokenize(_)
Tokenize(s) ==
    IF s = <<>> THEN <<>>
    ELSE LET c == Head(s) IN
      IF c = " " THEN Tokenize(Tail(s))
      ELSE IF c \in Digits THEN
        LET n == Run(s, Digits)
            imag == n < Len(s) /\ s[n + 1] = "j"
        IN  IF imag
            THEN <<[k |-> "imag", n |-> DigitsVal(SubSeq(s, 1, n))]>>
                   \o Tokenize(From(s, n + 2))
            ELSE <<[k |-> "num", n |-> DigitsVal(SubSeq(s, 1, n))]>>
                   \o Tokenize(From(s, n + 1))
      ELSE IF c \in Letters THEN
        LET n == Run(s, Letters \cup Digits)
            w == SubSeq(s, 1, n)
        IN  <<[k |-> IF w \in Keywords THEN "kw" ELSE "name", s |-> w]>>
              \o Tokenize(From(s, n + 1))
      ELSE IF c = "'" THEN
        LET n == Find(Tail(s), "'")
        IN  IF n = 0 THEN <<[k |-> "bad"]>>
            ELSE <<[k |-> "str", s |-> SubSeq(s, 2, n)]>>
                   \o Tokenize(From(s, n + 2))
      ELSE IF Len(s) >= 2 /\ SubSeq(s, 1, 2) \in TwoCharOps THEN
        <<OpTok(SubSeq(s, 1, 2))>> \o Tokenize(From(s, 3))
      ELSE IF c \in OneCharOps THEN <<OpTok(<<c>>)>> \o Tokenize(Tail(s))
      ELSE <<[k |-> "bad"]>>


\* ------------------------------------------------------------------------
\* Values.  Every value is a record tagged by t:
\*   int [n], float [n, d] (an exact fraction n/d, d > 0, in lowest terms),
\*   fsym [sym] (a float the model keeps symbolic: inf, nan, pi, e),
\*   huge (an int beyond MaxAbs), complex [re, im] (integral parts),
\*   opaque (a value the model does not compute),
\*   str [s], tuple [elts], list [elts], func [name] (a callable object),
\*   and, as the outcome of a failed evaluation, error [type].
\* ------------------------------------------------------------------------
IntV(n) == [t |-> "int", n |-> n]
StrV(s) == [t |-> "str", s |-> s]
FSym(x) == [t |-> "fsym", sym |-> x]
FuncV(f) == [t |-> "func", name |-> f]
TupleV(es) == [t |-> "tuple", elts |-> es]
ListV(es) == [t |-> "list", elts |-> es]
ComplexV(re, im) == [t |-> "complex", re |-> re, im |-> im]
\* a raised exception: its Python type and the text of its message
Err(type, msg) == [t |-> "error", type |-> type, msg |-> msg]
IsErr(v) == v.t = "error"

\* ------------------------------------------------------------------------
\* ast.parse, part 2: the syntax tree (Python's expression grammar, the part
\* over the tokens above).  A node is a record tagged by kind, with the
\* fields of the ast class of that name.
\* ------------------------------------------------------------------------
Load == [kind |-> "Load"]
Constant(v) == [kind |-> "Constant", value |-> v]
Name(id) == [kind |-> "Name", id |-> id, ctx |-> Load]
BinOp(l, op, r) ==
    [kind |-> "BinOp", left |-> l, op |-> [kind |-> op], right |-> r]
UnaryOp(op, x) == [kind |-> "UnaryOp", op |-> [kind |-> op], operand |-> x]
Call(f, args, kws) ==
    [kind |-> "Call", func |-> f, args |-> args, keywords |-> kws]
Keyword(arg, v) == [kind |-> "keyword", arg |-> arg, value |-> v]
TupleN(es) == [kind |-> "Tuple", elts |-> es, ctx |-> Load]
ListN(es) == [kind |-> "List", elts |-> es, ctx |-> Load]
Attribute(v, a) == [kind |-> "Attribute", value |-> v, attr |-> a, ctx |-> Load]
Subscript(v, sl) ==
    [kind |-> "Subscript", value |-> v, slice |-> sl, ctx |-> Load]
Lambda(b) == [kind |-> "Lambda", args |-> [kind |-> "arguments"], body |-> b]
ListComp(e, target, iter) ==
    [kind |-> "ListComp", elt |-> e,
     generators |-> <<[kind |-> "comprehension", target |-> target,
                       iter |-> iter]>>]
Compare(l, ops, cs) ==
    [kind |-> "Compare", left |-> l, ops |-> ops, comparators |-> cs]
Expression(b) == [kind |-> "Expression", body |-> b]

NoNode == [kind |-> "none"]
\* result of a parsing function: a node and the position of the next token
Got(n, i) == [ok |-> TRUE, node |-> n, pos |-> i]
Fail(i) == [ok |-> FALSE, node |-> NoNode, pos |-> i]
\* result of parsing a comma-separated list
GotList(ns, kws, i) == [ok |-> TRUE, nodes |-> ns, kws |-> kws, pos |-> i]
FailList(i) == [ok |-> FALSE, nodes |-> <<>>, kws |-> <<>>, pos |-> i]

IsOpAt(t, i, s) == i >= 1 /\ i <= Len(t) /\ t[i].k = "op" /\ t[i].s = s
IsKwAt(t, i, s) == i >= 1 /\ i <= Len(t) /\ t[i].k = "kw" /\ t[i].s = s
IsKind(t, i, k) == i >= 1 /\ i <= Len(t) /\ t[i].k = k

SumOps == {<<"+">>, <<"-">>}
TermOps == {<<"*">>, <<"/">>, <<"/", "/">>, <<"%">>}
OpKind(s) ==
    CASE s = <<"+">> -> "Add" [] s = <<"-">> -> "Sub" [] s = <<"*">> -> "Mult"
      [] s = <<"/">> -> "Div" [] s = <<"/", "/">> -> "FloorDiv"
      [] s = <<"%">> -> "Mod" [] OTHER -> "Pow"
UnaryKind(s) == IF s = <<"+">> THEN "UAdd" ELSE "USub"

RECURSIVE P_expression(_, _), P_compFrom(_, _, _, _), P_sumFrom(_, _, _, _),
          P_termFrom(_, _, _, _), P_factor(_, _), P_trailers(_, _, _),
          P_elts(_, _, _), P_args(_, _, _, _), P_atom(_, _)

\* comparison: sum ('==' sum)*
\* r is the sum that starts at the token after the '==' at i - 1 (after
\* nothing when left is NoNode)
P_compNext(t, left, cs, i, r) ==
    LET first == left.kind = "none"
        l2 == IF first THEN r.node ELSE left
        cs2 == IF first THEN cs ELSE Append(cs, r.node)
    IN  IF ~r.ok THEN Fail(i)
        ELSE IF IsOpAt(t, r.pos, <<"=", "=">>)
        THEN P_compFrom(t, l2, cs2, r.pos + 1)
        ELSE IF cs2 = <<>> THEN Got(l2, r.pos)
        ELSE Got(Compare(l2, [j \in 1..Len(cs2) |-> [kind |-> "Eq"]], cs2), r.pos)

P_compFrom(t, left, cs, i) == P_compNext(t, left, cs, i, P_sumFrom(t, NoNode, "", i))

P_comparison(t, i) == P_compFrom(t, NoNode, <<>>, i)

\* expression: 'lambda' ':' expression | comparison
P_lambdaOf(b, i) == IF b.ok THEN Got(Lambda(b.node), b.pos) ELSE Fail(i)

P_expression(t, i) ==
    IF IsKwAt(t, i, <<"l", "a", "m", "b", "d", "a">>) THEN
      IF IsOpAt(t, i + 1, <<":">>) THEN P_lambdaOf(P_expression(t, i + 2), i)
      ELSE Fail(i)
    ELSE P_comparison(t, i)

\* a left-associative level: left op r when there is a left operand, and the
\* loop goes on while the next token is an operator of the level
P_leftNext(left, op, r) ==
    IF left.kind = "none" THEN r.node ELSE BinOp(left, op, r.node)

\* sum: term (('+' | '-') term)*, grouping to the left
P_sumNext(t, left, op, i, r) ==
    IF ~r.ok THEN Fail(i)
    ELSE IF r.pos <= Len(t) /\ t[r.pos].k = "op" /\ t[r.pos].s \in SumOps
    THEN P_sumFrom(t, P_leftNext(left, op, r), OpKind(t[r.pos].s), r.pos + 1)
    ELSE Got(P_leftNext(left, op, r), r.pos)

P_sumFrom(t, left, op, i) == P_sumNext(t, left, op, i, P_termFrom(t, NoNode, "", i))

P_sum(t, i) == P_sumFrom(t, NoNode, "", i)

\* term: factor (('*' | '/' | '//' | '%') factor)*, grouping to the left
P_termNext(t, left, op, i, r) ==
    IF ~r.ok THEN Fail(i)
    ELSE IF r.pos <= Len(t) /\ t[r.pos].k = "op" /\ t[r.pos].s \in TermOps
    THEN P_termFrom(t, P_leftNext(left, op, r), OpKind(t[r.pos].s), r.pos + 1)
    ELSE Got(P_leftNext(left, op, r), r.pos)

P_termFrom(t, left, op, i) == P_termNext(t, left, op, i, P_factor(t, i))

P_term(t, i) == P_termFrom(t, NoNode, "", i)

P_primaryOf(t, a) == IF a.ok THEN P_trailers(t, a.node, a.pos) ELSE a
P_signed(s, f, i) ==
    IF f.ok THEN Got(UnaryOp(UnaryKind(s), f.node), f.pos) ELSE Fail(i)
P_raised(p, f, i) ==
    IF f.ok THEN Got(BinOp(p.node, "Pow", f.node), f.pos) ELSE Fail(i)
P_isSignAt(t, i) == i <= Len(t) /\ t[i].k = "op" /\ t[i].s \in SumOps

\* power, were '**' grouped to the left like the other binary operators
RECURSIVE P_powerLoop(_, _, _, _)
P_powerLoop(t, left, i, r) ==
    IF ~r.ok THEN Fail(i)
    ELSE IF IsOpAt(t, r.pos, <<"*", "*">>)
    THEN P_powerLoop(t, P_leftNext(left, "Pow", r), r.pos + 1,
                     IF P_isSignAt(t, r.pos + 1) THEN P_factor(t, r.pos + 1)
                     ELSE P_primaryOf(t, P_atom(t, r.pos + 1)))
    ELSE Got(P_leftNext(left, "Pow", r), r.pos)

P_power_LeftAssoc(t, i) == P_powerLoop(t, NoNode, i, P_primaryOf(t, P_atom(t, i)))

\* power: primary ['**' factor]
P_powerOf(t, p, i) ==
    IF p.ok /\ IsOpAt(t, p.pos, <<"*", "*">>)
    THEN P_raised(p, P_factor(t, p.pos + 1), i)
    ELSE p

P_primary(t, i) == P_primaryOf(t, P_atom(t, i))

P_power(t, i) == P_powerOf(t, P_primary(t, i), i)

\* factor: ('+' | '-') factor | power
P_factor(t, i) ==
    IF P_isSignAt(t, i) THEN P_signed(t[i].s, P_factor(t, i + 1), i)
    ELSE P_power(t, i)

\* primary: atom ('.' NAME | '(' args ')' | '[' expression ']')*
P_called(t, n, a, i) ==
    IF a.ok /\ IsOpAt(t, a.pos, <<")">>)
    THEN P_trailers(t, Call(n, a.nodes, a.kws), a.pos + 1)
    ELSE Fail(i)

P_subscripted(t, n, e, i) ==
    IF e.ok /\ IsOpAt(t, e.pos, <<"]">>)
    THEN P_trailers(t, Subscript(n, e.node), e.pos + 1)
    ELSE Fail(i)

P_trailers(t, n, i) ==
    IF IsOpAt(t, i, <<".">>) THEN
      IF IsKind(t, i + 1, "name")
      THEN P_trailers(t, Attribute(n, t[i + 1].s), i + 2)
      ELSE Fail(i)
    ELSE IF IsOpAt(t, i, <<"(">>) THEN P_called(t, n, P_args(t, <<>>, <<>>, i + 1), i)
    ELSE IF IsOpAt(t, i, <<"[">>) THEN P_subscripted(t, n, P_expression(t, i + 1), i)
    ELSE Got(n, i)

\* args: the arguments of a call up to (not including) the ')'; a
\* positional argument after a keyword argument is a syntax error
P_isKeywordAt(t, i) == IsKind(t, i, "name") /\ IsOpAt(t, i + 1, <<"=">>)

P_argsNext(t, args, kws, i, e) ==
    LET iskw == P_isKeywordAt(t, i)
        args2 == IF iskw THEN args ELSE Append(args, e.node)
        kws2 == IF iskw THEN Append(kws, Keyword(t[i].s, e.node)) ELSE kws
    IN  IF ~e.ok \/ (~iskw /\ kws # <<>>) THEN FailList(i)
        ELSE IF IsOpAt(t, e.pos, <<",">>)
             THEN P_args(t, args2, kws2, e.pos + 1)
             ELSE GotList(args2, kws2, e.pos)

P_args(t, args, kws, i) ==
    IF IsOpAt(t, i, <<")">>) THEN GotList(args, kws, i)
    ELSE P_argsNext(t, args, kws, i,
                    P_expression(t, IF P_isKeywordAt(t, i) THEN i + 2 ELSE i))

\* elts: expression (',' expression)* [','], the elements of a display
P_eltsNext(t, es, i, e) ==
    IF ~e.ok THEN FailList(i)
    ELSE IF IsOpAt(t, e.pos, <<",">>) THEN
           IF e.pos + 1 > Len(t) \/ IsOpAt(t, e.pos + 1, <<")">>)
              \/ IsOpAt(t, e.pos + 1, <<"]">>)
           THEN GotList(Append(es, e.node), <<>>, e.pos + 1)
           ELSE P_elts(t, Append(es, e.node), e.pos + 1)
         ELSE GotList(Append(es, e.node), <<>>, e.pos)

P_elts(t, es, i) == P_eltsNext(t, es, i, P_expression(t, i))

\* the display whose elements es follow the '(' or '[' at i
P_comprehension(t, i, es, it) ==
    IF it.ok /\ IsOpAt(t, it.pos, <<"]">>)
    THEN Got(ListComp(es.nodes[1],
                      [kind |-> "Name", id |-> t[es.pos + 1].s,
                       ctx |-> [kind |-> "Store"]], it.node),
             it.pos + 1)
    ELSE Fail(i)

P_display(t, i, es) ==
    LET single == Len(es.nodes) = 1 /\ ~IsOpAt(t, es.pos - 1, <<",">>)
    IN  IF ~es.ok THEN Fail(i)
        ELSE IF IsOpAt(t, i, <<"(">>) THEN
          IF IsOpAt(t, es.pos, <<")">>)
          THEN Got(IF single THEN es.nodes[1] ELSE TupleN(es.nodes), es.pos + 1)
          ELSE Fail(i)
        ELSE IF IsOpAt(t, es.pos, <<"]">>) THEN Got(ListN(es.nodes), es.pos + 1)
        ELSE IF /\ Len(es.nodes) = 1
                /\ IsKwAt(t, es.pos, <<"f", "o", "r">>)
                /\ IsKind(t, es.pos + 1, "name")
                /\ IsKwAt(t, es.pos + 2, <<"i", "n">>)
        THEN P_comprehension(t, i, es, P_sum(t, es.pos + 3))
        ELSE Fail(i)

\* atom: NUMBER | STRING | NAME | '(' [elts] ')' | '[' [elts] ']'
\*       | '[' expression 'for' NAME 'in' sum ']'
P_atom(t, i) ==
    IF i > Len(t) THEN Fail(i)
    ELSE IF t[i].k = "num" THEN Got(Constant(IntV(t[i].n)), i + 1)
    ELSE IF t[i].k = "imag" THEN Got(Constant(ComplexV(0, t[i].n)), i + 1)
    ELSE IF t[i].k = "str" THEN Got(Constant(StrV(t[i].s)), i + 1)
    ELSE IF t[i].k = "name" THEN Got(Name(t[i].s), i + 1)
    ELSE IF IsOpAt(t, i, <<"(">>) /\ IsOpAt(t, i + 1, <<")">>)
    THEN Got(TupleN(<<>>), i + 2)
    ELSE IF IsOpAt(t, i, <<"[">>) /\ IsOpAt(t, i + 1, <<"]">>)
    THEN Got(ListN(<<>>), i + 2)
    ELSE IF IsOpAt(t, i, <<"(">>) \/ IsOpAt(t, i, <<"[">>)
    THEN P_display(t, i, P_elts(t, <<>>, i + 1))
    ELSE Fail(i)

\* ast.parse(expr, mode='eval'): the Expression tree of the text, or
\* SyntaxError.  The whole text is one expression, or a tuple written
\* without parentheses.
ast_tree(t, es) ==
    LET single == Len(es.nodes) = 1 /\ ~IsOpAt(t, Len(t), <<",">>)
    IN  IF t = <<>> \/ ~es.ok \/ es.pos # Len(t) + 1
        THEN Err("SyntaxError", "invalid syntax")
        ELSE Expression(IF single THEN es.nodes[1] ELSE TupleN(es.nodes))

ast_tokens(t) == ast_tree(t, P_elts(t, <<>>, 1))

\* A text that starts with a blank is refused before it is parsed
\* (IndentationError, a SyntaxError: unexpected indent).
ast_parse(expr) ==
    IF expr # <<>> /\ Head(expr) = " "
    THEN Err("SyntaxError", "unexpected indent")
    ELSE ast_tokens(Tokenize(expr))


IsTree(x) == "kind" \in DOMAIN x

\* ------------------------------------------------------------------------
\* Validation: ALLOWED_NODES and SafeEvaluator._check_node
\* ------------------------------------------------------------------------
ALLOWED_NODES ==
    {"Expression", "BinOp", "UnaryOp", "Num", "Constant", "Name", "Load",
     "Add", "Sub", "Mult", "Div", "FloorDiv", "Mod", "Pow", "UAdd", "USub",
     "Call", "Tuple", "List"}

\* ast.iter_child_nodes(node): the child nodes, in the order of the fields
\* of the node's class
iter_child_nodes(n) ==
    CASE n.kind = "Expression" -> <<n.body>>
      [] n.kind = "BinOp" -> <<n.left, n.op, n.right>>
      [] n.kind = "UnaryOp" -> <<n.op, n.operand>>
      [] n.kind = "Name" -> <<n.ctx>>
      [] n.kind = "Call" -> <<n.func>> \o n.args \o n.keywords
      [] n.kind = "keyword" -> <<n.value>>
      [] n.kind \in {"Tuple", "List"} -> n.elts \o <<n.ctx>>
      [] n.kind = "Attribute" -> <<n.value, n.ctx>>
      [] n.kind = "Subscript" -> <<n.value, n.slice, n.ctx>>
      [] n.kind = "Lambda" -> <<n.args, n.body>>
      [] n.kind = "ListComp" -> <<n.elt>> \o n.generators
      [] n.kind = "comprehension" -> <<n.target, n.iter>>
      [] n.kind = "Compare" -> <<n.left>> \o n.ops \o n.comparators
      [] OTHER -> <<>>

Rejected(kind) ==
    [t |-> "error", type |-> "ValueError",
     msg |-> "Unsupported expression element", kind |-> kind]
Checked == [t |-> "ok"]

\* _check_node(node): Checked, or the ValueError raised at the first node,
\* in pre-order, whose class is not in ALLOWED_NODES
RECURSIVE _check_node(_), _check_children(_)
_check_node(node) ==
    IF node.kind \notin ALLOWED_NODES THEN Rejected(node.kind)
    ELSE _check_children(iter_child_nodes(node))

_check_children(cs) ==
    IF cs = <<>> THEN Checked
    ELSE LET r == _check_node(Head(cs))
         IN  IF IsErr(r) THEN r ELSE _check_children(Tail(cs))

\* ------------------------------------------------------------------------
\* Ordered dictionaries (Python dict): a sequence of <<key, value>> pairs
\* with distinct keys, in insertion order
\* ------------------------------------------------------------------------
Keys(d) == {d[i][1] : i \in 1..Len(d)}
HasKey(d, k) == \E i \in 1..Len(d) : d[i][1] = k
Get(d, k) == d[CHOOSE i \in 1..Len(d) : d[i][1] = k][2]
\* d[k] = v, were the pair added without looking for the key
Put_Append(d, k, v) == Append(d, <<k, v>>)

\* d[k] = v: an existing key keeps its position
Put(d, k, v) ==
    IF HasKey(d, k)
    THEN [i \in 1..Len(d) |-> IF d[i][1] = k THEN <<k, v>> ELSE d[i]]
    ELSE Append(d, <<k, v>>)


\* ------------------------------------------------------------------------
\* Python arithmetic on values (the operators applied by _eval)
\* ------------------------------------------------------------------------
Huge == [t |-> "huge"]
Opaque == [t |-> "opaque"]
TypeError == Err("TypeError", "unsupported operand type(s)")
ZeroDivisionError == Err("ZeroDivisionError", "division by zero")

Abs(x) == IF x < 0 THEN -x ELSE x

RECURSIVE Gcd(_, _)
Gcd(a, b) == IF b = 0 THEN Abs(a) ELSE Gcd(b, a % Abs(b))

\* floor(a / b), b # 0
FloorDivI(a, b) == IF b > 0 THEN a \div b ELSE (-a) \div (-b)

IntC(n) == IF Abs(n) > MaxAbs THEN Huge ELSE IntV(n)

\* the float n/d, d # 0
Frac(n, d) ==
    LET g == Gcd(n, d)
        nn == (IF d < 0 THEN -n ELSE n) \div g
        dd == Abs(d) \div g
    IN  IF Abs(nn) > MaxAbs \/ dd > MaxAbs THEN Opaque
        ELSE [t |-> "float", n |-> nn, d |-> dd]

IsExact(v) == v.t \in {"int", "float"}
IsNumber(v) == v.t \in {"int", "float", "fsym", "huge", "complex", "opaque"}
IsSeqV(v) == v.t \in {"str", "tuple", "list"}
Num(v) == v.n
Den(v) == IF v.t = "int" THEN 1 ELSE v.d
IsZero(v) ==
    \/ IsExact(v) /\ v.n = 0
    \/ v.t = "complex" /\ v.re = 0 /\ v.im = 0
Less(a, b) == Num(a) * Den(b) < Num(b) * Den(a)

\* b ** k for k >= 0, by repeated squaring; a result beyond MaxAbs is
\* reported as some number beyond MaxAbs
RECURSIVE PowCap(_, _)
PowCap(b, k) ==
    IF k = 0 THEN 1
    ELSE LET h == PowCap(b, k \div 2)
             sq == IF Abs(h) > MaxAbs THEN h ELSE h * h
         IN  IF k % 2 = 0 \/ Abs(sq) > MaxAbs THEN sq ELSE sq * b

PowExact(l, r) ==
    LET k == Num(r)
        pn == PowCap(Num(l), Abs(k))
        pd == PowCap(Den(l), Abs(k))
    IN  IF Den(r) # 1 THEN Opaque
        ELSE IF k < 0 /\ Num(l) = 0
        THEN Err("ZeroDivisionError", "0.0 cannot be raised to a negative power")
        ELSE IF Abs(pn) > MaxAbs \/ Abs(pd) > MaxAbs
        THEN (IF l.t = "int" /\ r.t = "int" /\ k >= 0 THEN Huge ELSE Opaque)
        ELSE IF l.t = "int" /\ r.t = "int" /\ k >= 0 THEN IntV(pn)
        ELSE IF k >= 0 THEN Frac(pn, pd) ELSE Frac(pd, pn)

\* arithmetic on two ints or floats
ArithExact(op, l, r) ==
    LET ints == l.t = "int" /\ r.t = "int"
        a == Num(l)
        b == Den(l)
        c == Num(r)
        d == Den(r)
        \* floor(l / r)
        q == FloorDivI(a * d, b * c)
    IN  CASE op = "Add" -> IF ints THEN IntC(a + c) ELSE Frac(a * d + c * b, b * d)
          [] op = "Sub" -> IF ints THEN IntC(a - c) ELSE Frac(a * d - c * b, b * d)
          [] op = "Mult" -> IF ints THEN IntC(a * c) ELSE Frac(a * c, b * d)
          [] op = "Div" -> Frac(a * d, b * c)
          [] op = "FloorDiv" -> IF ints THEN IntC(q) ELSE Frac(q, 1)
          [] op = "Mod" ->
               IF ints THEN IntC(a - c * q)
               ELSE Frac(a * d - q * c * b, b * d)
          [] OTHER -> PowExact(l, r)

RECURSIVE Repeat(_, _)
Repeat(s, k) == IF k <= 0 THEN <<>> ELSE s \o Repeat(s, k - 1)

SeqOf(v) == IF v.t = "str" THEN v.s ELSE v.elts
MkSeq(t, s) == IF t = "str" THEN StrV(s) ELSE [t |-> t, elts |-> s]

\* left <op> right
Arith(op, l, r) ==
    IF IsNumber(l) /\ IsNumber(r) THEN
      IF op \in {"FloorDiv", "Mod"} /\ "complex" \in {l.t, r.t} THEN TypeError
      ELSE IF op \in {"Div", "FloorDiv", "Mod"} /\ IsZero(r)
      THEN ZeroDivisionError
      ELSE IF IsExact(l) /\ IsExact(r) THEN ArithExact(op, l, r)
      ELSE IF op \in {"Add", "Sub"} /\ {l.t, r.t} \subseteq {"int", "complex"}
      THEN LET lre == IF l.t = "int" THEN l.n ELSE l.re
               lim == IF l.t = "int" THEN 0 ELSE l.im
               rre == IF r.t = "int" THEN r.n ELSE r.re
               rim == IF r.t = "int" THEN 0 ELSE r.im
           IN  IF op = "Add" THEN ComplexV(lre + rre, lim + rim)
               ELSE ComplexV(lre - rre, lim - rim)
      ELSE Opaque
    ELSE IF op = "Add" /\ IsSeqV(l) /\ l.t = r.t
    THEN MkSeq(l.t, SeqOf(l) \o SeqOf(r))
    ELSE IF op = "Mult" /\ IsSeqV(l) /\ r.t = "int"
    THEN (IF r.n * Len(SeqOf(l)) > MaxAbs THEN Opaque
          ELSE MkSeq(l.t, Repeat(SeqOf(l), r.n)))
    ELSE IF op = "Mult" /\ l.t = "int" /\ IsSeqV(r)
    THEN (IF l.n * Len(SeqOf(r)) > MaxAbs THEN Opaque
          ELSE MkSeq(r.t, Repeat(SeqOf(r), l.n)))
    ELSE IF op = "Mod" /\ l.t = "str"
    THEN (IF \E i \in 1..Len(l.s) : l.s[i] = "%" THEN Opaque
          ELSE IF r.t = "tuple" /\ r.elts = <<>> THEN l
          ELSE Err("TypeError", "not all arguments converted"))
    ELSE IF Opaque \in {l, r} THEN Opaque
    ELSE TypeError

\* +operand, -operand
Unary(op, x) ==
    IF ~IsNumber(x) THEN Err("TypeError", "bad operand type for unary")
    ELSE IF op = "UAdd" THEN x
    ELSE IF x.t = "int" THEN IntV(-x.n)
    ELSE IF x.t = "float" THEN [x EXCEPT !.n = -x.n]
    ELSE IF x.t = "complex" THEN ComplexV(-x.re, -x.im)
    ELSE IF x.t = "huge" THEN Huge
    ELSE Opaque


\* ------------------------------------------------------------------------
\* The whitelisted names.  The model carries the entries its inputs use:
\* two of MATH_FUNCS, two of UTIL_FUNCS and four of CONSTANTS.
\* ------------------------------------------------------------------------
N_gcd == <<"g", "c", "d">>
N_sqrt == <<"s", "q", "r", "t">>
N_sum == <<"s", "u", "m">>
N_max == <<"m", "a", "x">>
N_pi == <<"p", "i">>
N_e == <<"e">>
N_inf == <<"i", "n", "f">>
N_nan == <<"n", "a", "n">>

MATH_FUNCS == << <<N_gcd, FuncV("math.gcd")>>, <<N_sqrt, FuncV("math.sqrt")>> >>
UTIL_FUNCS == << <<N_sum, FuncV("lambda sum")>>, <<N_max, FuncV("lambda max")>> >>
CONSTANTS_ ==
    << <<N_pi, FSym("pi")>>, <<N_e, FSym("e")>>, <<N_inf, FSym("inf")>>,
       <<N_nan, FSym("nan")>> >>

\* dict.update(other)
RECURSIVE update(_, _)
update(d, other) ==
    IF other = <<>> THEN d
    ELSE update(Put(d, Head(other)[1], Head(other)[2]), Tail(other))

ALLOWED_GLOBALS == update(update(update(<<>>, MATH_FUNCS), UTIL_FUNCS), CONSTANTS_)

\* the callables of the table
GlobalFuncs ==
    {ALLOWED_GLOBALS[i][2] : i \in {j \in 1..Len(ALLOWED_GLOBALS) :
                                      ALLOWED_GLOBALS[j][2].t = "func"}}

callable(v) == v.t = "func"

RECURSIVE SumFrom(_, _)
SumFrom(acc, xs) ==
    IF IsErr(acc) \/ xs = <<>> THEN acc
    ELSE SumFrom(Arith("Add", acc, Head(xs)), Tail(xs))

RECURSIVE MaxFrom(_, _)
MaxFrom(best, xs) ==
    IF xs = <<>> THEN best
    ELSE MaxFrom(IF Less(best, Head(xs)) THEN Head(xs) ELSE best, Tail(xs))

RECURSIVE GcdFrom(_, _)
GcdFrom(g, xs) ==
    IF xs = <<>> THEN g ELSE GcdFrom(Gcd(g, Head(xs).n), Tail(xs))

\* the exact square root of n >= 0, or -1 when n is not a perfect square
ISqrt(n) ==
    IF \E k \in 0..n : k * k = n THEN CHOOSE k \in 0..n : k * k = n ELSE -1

\* func(*args, **kwargs) for the callables of the table.  None of them takes
\* keyword arguments.
Apply(f, args, kwargs) ==
    LET all(ts) == \A i \in 1..Len(args) : args[i].t \in ts
    IN
    IF kwargs # <<>> THEN Err("TypeError", "takes no keyword arguments")
    ELSE IF f.name = "lambda sum" THEN SumFrom(IntV(0), args)
    ELSE IF f.name = "lambda max" THEN
      IF args = <<>> THEN Err("ValueError", "max() arg is an empty sequence")
      ELSE IF Len(args) = 1 THEN args[1]
      ELSE IF all({"int", "float"}) THEN MaxFrom(Head(args), Tail(args))
      ELSE IF all({"int", "float", "fsym", "huge", "opaque"})
              \/ all({"str"}) \/ all({"tuple"}) \/ all({"list"})
      THEN Opaque
      ELSE Err("TypeError", "'>' not supported between instances")
    ELSE IF f.name = "math.gcd" THEN
      IF all({"int"}) THEN IntV(GcdFrom(0, args))
      ELSE IF all({"int", "huge"}) THEN Opaque
      ELSE Err("TypeError", "object cannot be interpreted as an integer")
    ELSE IF f.name = "math.sqrt" THEN
      IF Len(args) # 1 THEN Err("TypeError", "sqrt() takes exactly one argument")
      ELSE IF ~IsNumber(args[1]) \/ args[1].t = "complex"
      THEN Err("TypeError", "must be real number")
      ELSE IF ~IsExact(args[1]) THEN Opaque
      ELSE IF args[1].n < 0 THEN Err("ValueError", "math domain error")
      ELSE LET rn == ISqrt(Num(args[1]))
               rd == ISqrt(Den(args[1]))
           IN  IF rn < 0 \/ rd < 0 THEN Opaque ELSE Frac(rn, rd)
    ELSE Err("TypeError", "object is not callable")

\* ------------------------------------------------------------------------
\* SafeEvaluator._eval.  The result carries, beside the value or the raised
\* exception (v), what the evaluation did: the number of nodes it evaluated
\* (n), the names it looked up (names) and the callables it invoked (calls).
\* ------------------------------------------------------------------------
R(v, n, names, calls) == [v |-> v, n |-> n, names |-> names, calls |-> calls]
NotStarted == R(Checked, 0, {}, {})
\* r, after one more node and the work of the evaluations in rs
After(v, rs) ==
    R(v, 1 + rs.n, rs.names, rs.calls)
Both(a, b) == R(b.v, a.n + b.n, a.names \cup b.names, a.calls \cup b.calls)

UnknownName(id) ==
    [t |-> "error", type |-> "NameError", msg |-> "Unknown name", id |-> id]

\* Lookup, were the whitelisted names consulted before the variables
Lookup_GlobalsFirst(vs, gl, name) ==
    IF HasKey(gl, name) THEN Get(gl, name)
    ELSE IF HasKey(vs, name) THEN Get(vs, name)
    ELSE UnknownName(name)

\* Lookup, were a name found nowhere resolved among Python's builtins
Lookup_Builtins(vs, gl, name) ==
    IF HasKey(vs, name) THEN Get(vs, name)
    ELSE IF HasKey(gl, name) THEN Get(gl, name)
    ELSE FuncV("builtins")

\* the value of a Name node: variables first, then the whitelisted names
Lookup(vs, gl, name) ==
    IF HasKey(vs, name) THEN Get(vs, name)
    ELSE IF HasKey(gl, name) THEN Get(gl, name)
    ELSE UnknownName(name)

RECURSIVE _eval(_, _, _), _evalAll(_, _, _, _, _)

\* the values of the nodes ns, evaluated left to right up to the first
\* exception: v is then that exception, otherwise the tuple of the values
_evalAll(ns, vs, gl, done, acc) ==
    IF ns = <<>> THEN Both(acc, R(TupleV(done), 0, {}, {}))
    ELSE LET r == _eval(Head(ns), vs, gl)
         IN  IF IsErr(r.v) THEN Both(acc, r)
             ELSE _evalAll(Tail(ns), vs, gl, Append(done, r.v), Both(acc, r))

_eval(node, vs, gl) ==
    IF node.kind \in {"Num", "Constant"} THEN R(node.value, 1, {}, {})
    ELSE IF node.kind = "Name" THEN R(Lookup(vs, gl, node.id), 1, {node.id}, {})
    ELSE IF node.kind = "BinOp" THEN
      LET left == _eval(node.left, vs, gl)
          right == _eval(node.right, vs, gl)
          lr == Both(left, right)
      IN  IF IsErr(left.v) THEN After(left.v, left)
          ELSE IF IsErr(right.v) THEN After(right.v, lr)
          ELSE IF node.op.kind \in {"Add", "Sub", "Mult", "Div", "FloorDiv",
                                    "Mod", "Pow"}
          THEN After(Arith(node.op.kind, left.v, right.v), lr)
          ELSE After(Err("ValueError", "Unsupported operator"), lr)
    ELSE IF node.kind = "UnaryOp" THEN
      LET operand == _eval(node.operand, vs, gl)
      IN  IF IsErr(operand.v) THEN After(operand.v, operand)
          ELSE IF node.op.kind \in {"UAdd", "USub"}
          THEN After(Unary(node.op.kind, operand.v), operand)
          ELSE After(Err("ValueError", "Unsupported unary operator"), operand)
    ELSE IF node.kind \in {"Tuple", "List"} THEN
      LET es == _evalAll(node.elts, vs, gl, <<>>, NotStarted)
      IN  IF IsErr(es.v) THEN After(es.v, es)
          ELSE IF node.kind = "Tuple" THEN After(es.v, es)
          ELSE After(ListV(es.v.elts), es)
    ELSE IF node.kind = "Call" THEN
      LET func == _eval(node.func, vs, gl)
          args == _evalAll(node.args, vs, gl, <<>>, func)
          kwvals == _evalAll([i \in 1..Len(node.keywords) |->
                                node.keywords[i].value], vs, gl, <<>>, args)
          kwargs == [i \in 1..Len(node.keywords) |->
                       <<node.keywords[i].arg, kwvals.v.elts[i]>>]
      IN  IF IsErr(func.v) THEN After(func.v, func)
          ELSE IF callable(func.v) THEN
            IF IsErr(args.v) THEN After(args.v, args)
            ELSE IF IsErr(kwvals.v) THEN After(kwvals.v, kwvals)
            ELSE R(Apply(func.v, args.v.elts, kwargs), 1 + kwvals.n,
                   kwvals.names, kwvals.calls \cup {func.v})
          ELSE After(Err("ValueError", "Attempted to call non-callable"), func)
    ELSE R(Err("ValueError", "Unsupported node"), 1, {}, {})

\* eval_expr, were a node only checked when evaluation reaches it
eval_expr_CheckOnDemand(expr, vs, gl) ==
    LET tree == ast_parse(expr)
    IN  IF ~IsTree(tree)
        THEN R(Err("ValueError", "Syntax error"), 0, {}, {})
        ELSE _eval(tree.body, vs, gl)

\* SafeEvaluator.eval_expr(expr): parse, validate the whole tree, evaluate
eval_expr(expr, vs, gl) ==
    LET tree == ast_parse(expr)
        chk == _check_node(tree)
    IN  IF ~IsTree(tree)
        THEN R(Err("ValueError", "Syntax error"), 0, {}, {})
        ELSE IF IsErr(chk) THEN R(chk, 0, {}, {})
        ELSE _eval(tree.body, vs, gl)


\* ------------------------------------------------------------------------
\* JSON: json.dump(data, f, default=str) and json.load(f)
\* A document is a record tagged by j: number [v], string [s], bool [b],
\* array [items], object [members] (a sequence of <<key, document>>).
\* ------------------------------------------------------------------------
JNum(v) == [j |-> "number", v |-> v]
JStr(s) == [j |-> "string", s |-> s]
JBool(b) == [j |-> "bool", b |-> b]
JArr(items) == [j |-> "array", items |-> items]
JObj(members) == [j |-> "object", members |-> members]

BoolV(b) == [t |-> "bool", b |-> b]
DictV(items) == [t |-> "dict", items |-> items]

DigitChar(d) ==
    CASE d = 0 -> "0" [] d = 1 -> "1" [] d = 2 -> "2" [] d = 3 -> "3"
      [] d = 4 -> "4" [] d = 5 -> "5" [] d = 6 -> "6" [] d = 7 -> "7"
      [] d = 8 -> "8" [] OTHER -> "9"

\* the decimal digits of n >= 0
RECURSIVE IntText(_)
IntText(n) ==
    IF n < 10 THEN <<DigitChar(n)>>
    ELSE Append(IntText(n \div 10), DigitChar(n % 10))

\* str(v) for the values json cannot encode: a complex number prints as
\* (re+imj), or as imj when its real part is zero; a function prints as
\* its repr, abbreviated here to <name>
str(v) ==
    IF v.t = "complex" THEN
      LET im == (IF v.im < 0 THEN <<"-">> ELSE <<>>) \o IntText(Abs(v.im))
                  \o <<"j">>
          re == (IF v.re < 0 THEN <<"-">> ELSE <<>>) \o IntText(Abs(v.re))
      IN  IF v.re = 0 THEN im
          ELSE <<"(">> \o re \o (IF v.im < 0 THEN <<>> ELSE <<"+">>) \o im
                 \o <<")">>
    ELSE IF v.name = "math.gcd" THEN <<"<", "g", "c", "d", ">">>
    ELSE IF v.name = "math.sqrt" THEN <<"<", "s", "q", "r", "t", ">">>
    ELSE IF v.name = "lambda sum" THEN <<"<", "l", "a", "m", "b", "d", "a", ">">>
    ELSE <<"<", "l", "a", "m", "b", "d", "a", ">">>

\* the document json.dump writes for a value: a tuple is written as an
\* array, and default=str turns what json cannot encode into a string
RECURSIVE dump(_)
dump(v) ==
    CASE v.t \in {"int", "float", "fsym", "huge", "opaque"} -> JNum(v)
      [] v.t = "str" -> JStr(v.s)
      [] v.t = "bool" -> JBool(v.b)
      [] v.t \in {"tuple", "list"} ->
           JArr([i \in 1..Len(v.elts) |-> dump(v.elts[i])])
      [] v.t = "dict" ->
           JObj([i \in 1..Len(v.items) |->
                   <<v.items[i][1], dump(v.items[i][2])>>])
      [] OTHER -> JStr(str(v))

\* the value json.load builds from a document
RECURSIVE load(_)
load(d) ==
    CASE d.j = "number" -> d.v
      [] d.j = "string" -> StrV(d.s)
      [] d.j = "bool" -> BoolV(d.b)
      [] d.j = "array" -> ListV([i \in 1..Len(d.items) |-> load(d.items[i])])
      [] OTHER ->
           DictV([i \in 1..Len(d.members) |->
                    <<d.members[i][1], load(d.members[i][2])>>])

\* ------------------------------------------------------------------------
\* Calculator
\* ------------------------------------------------------------------------
EvalResult(expr, value, is_assignment) ==
    [expr |-> StrV(expr), value |-> value, is_assignment |-> BoolV(is_assignment)]

\* the outcome of a Calculator method: the session after it, and what it
\* returned or raised together with what the evaluation did (r)
Outcome(vs, hist, r) == [vars |-> vs, history |-> hist, r |-> r]
Done == R(Checked, 0, {}, {})
Raised(e) == R(e, 0, {}, {})

\* Calculator.assign(name, expr)
Calculator_assign(vs, hist, gl, name, expr) ==
    LET nm == strip(name)
        r == eval_expr(expr, vs, gl)
    IN  IF ~isidentifier(nm)
        THEN Outcome(vs, hist, Raised(Err("ValueError", "Invalid variable name")))
        ELSE IF IsErr(r.v) THEN Outcome(vs, hist, r)
        ELSE Outcome(Put(vs, nm, r.v),
                     Append(hist, EvalResult(nm \o <<" ", "=", " ">> \o expr,
                                             r.v, TRUE)),
                     r)

\* Calculator.evaluate, were the record appended before the evaluation
Calculator_evaluate_AppendFirst(vs, hist, gl, expr) ==
    LET r == eval_expr(expr, vs, gl)
    IN  Outcome(vs, Append(hist, EvalResult(expr, r.v, FALSE)), r)

\* Calculator.evaluate, were the result also kept in the variable "_"
Calculator_evaluate_KeepResult(vs, hist, gl, expr) ==
    LET r == eval_expr(expr, vs, gl)
    IN  IF IsErr(r.v) THEN Outcome(vs, hist, r)
        ELSE Outcome(Put(vs, <<"_">>, r.v),
                     Append(hist, EvalResult(expr, r.v, FALSE)), r)

\* Calculator.evaluate(expr)
Calculator_evaluate(vs, hist, gl, expr) ==
    LET r == eval_expr(expr, vs, gl)
    IN  IF IsErr(r.v) THEN Outcome(vs, hist, r)
        ELSE Outcome(vs, Append(hist, EvalResult(expr, r.v, FALSE)), r)

K_variables == <<"v", "a", "r", "i", "a", "b", "l", "e", "s">>
K_history == <<"h", "i", "s", "t", "o", "r", "y">>

\* Calculator.save(path): the document written to the file
Calculator_save(vs, hist) ==
    dump(DictV(<<
      <<K_variables, DictV(vs)>>,
      <<K_history,
        ListV([i \in 1..Len(hist) |->
                 TupleV(<<hist[i].expr, hist[i].value, hist[i].is_assignment>>)])>>
    >>))

\* the content of a file: absent, a text that is not JSON, or a document
Absent == [kind |-> "absent"]
NotJSON == [kind |-> "text"]
JSONFile(doc) == [kind |-> "json", doc |-> doc]

\* data.get(key, default) on the loaded dict
get(data, key, default) ==
    IF HasKey(data.items, key) THEN Get(data.items, key) ELSE default

\* Calculator.load(path), f the content of the file.  The variables are
\* replaced first; the history is replaced after every record of the file
\* has been unpacked into (expr, value, is_assignment).
Calculator_load(vs, hist, f) ==
    LET data == load(f.doc)
        variables == get(data, K_variables, DictV(<<>>))
        records == get(data, K_history, ListV(<<>>))
        unpackable(rec) == rec.t \in {"list", "tuple"} /\ Len(rec.elts) = 3
    IN  IF f.kind = "absent"
        THEN Outcome(vs, hist, Raised(Err("FileNotFoundError", "No such file")))
        ELSE IF f.kind = "text"
        THEN Outcome(vs, hist, Raised(Err("JSONDecodeError", "Expecting value")))
        ELSE IF data.t # "dict"
        THEN Outcome(vs, hist, Raised(Err("AttributeError", "no attribute 'get'")))
        ELSE IF records.t \notin {"list", "tuple"}
        THEN Outcome(variables.items, hist,
                     Raised(Err("TypeError", "object is not iterable")))
        ELSE IF \E i \in 1..Len(records.elts) : ~unpackable(records.elts[i])
        THEN Outcome(variables.items, hist,
                     Raised(Err("ValueError", "not enough values to unpack")))
        ELSE Outcome(variables.items,
                     [i \in 1..Len(records.elts) |->
                        [expr |-> records.elts[i].elts[1],
                         value |-> records.elts[i].elts[2],
                         is_assignment |-> records.elts[i].elts[3]]],
                     Done)


\* ------------------------------------------------------------------------
\* The session as a state machine
\* ------------------------------------------------------------------------
VARIABLES
    vars,       \* calc.evaluator.vars, an ordered dictionary
    history,    \* calc.history, a sequence of EvalResult
    globals,    \* the module-level dictionary ALLOWED_GLOBALS
    file,       \* the content of the file the session saves to
    saved,      \* vars and history as they were at the last save
    pre,        \* vars and history before the last operation
    last,       \* the last operation, what it returned or raised and did
    ops,        \* the number of operations performed
    menu,       \* which set of inputs the run draws from
    input,      \* the text handed to eval_expr (arithmetic runs)
    pc          \* the position of repl(): "reading", "exited" or "crashed"

state == <<vars, history, globals, file, saved, pre, last, ops, menu, input, pc>>

\* The inputs of a run.  Each menu is a set of expression texts and of
\* variable names that together exercise one group of behaviours; the
\* menu "files" also reads the files that exist beside the session's own
\* and tries a path that cannot be written.
Menus == {"arith", "raise", "names", "reject", "syntax", "equals", "values", "floats", "files"}

Exprs(m) ==
    CASE m = "arith" ->
           {<<"1", "/", "0">>, <<"2", "+", "3", "*", "4">>, <<"x", "*", "2">>,
            <<"n", "o", "p", "e">>}
      [] m = "raise" ->
           {<<"2", "+">>, <<"s", "q", "r", "t", "(", "-", "1", ")">>,
            <<"x", "(", "1", ")">>, <<"7">>, <<" ", "7">>}
      [] m = "names" ->
           {<<"e">>, <<"m", "a", "x">>,
            <<"m", "a", "x", "(", "1", ",", "2", ")">>,
            <<"e", "(", "2", ",", "3", ")">>}
      [] m = "reject" ->
           {<<"_", "_", "i", "m", "p", "o", "r", "t", "_", "_", "(", "'", "o", "s", "'", ")">>,
            <<"x", ".", "y">>,
            <<"m", "a", "x", "(", "1", ",", "2", ")", "+", "x", ".", "y">>,
            <<"m", "a", "x", "(", "1", ",", "2", ")", "+", "z", "z">>}
      [] m = "syntax" ->
           {<<"x", "[", "0", "]">>, <<"l", "a", "m", "b", "d", "a", ":", "1">>,
            <<"[", "x", " ", "f", "o", "r", " ", "x", " ", "i", "n", " ", "x", "]">>,
            <<"'", "a", "'">>}
      [] m = "equals" ->
           {<<"m", "a", "x", "(", "a", "=", "1", ")">>, <<"1", "=", "=", "1">>,
            <<"(", "2", ")">>, <<"x">>}
      [] m = "values" ->
           {<<"(", "1", ",", "2", ")">>, <<"[", "1", ",", "2", "]">>,
            <<"1", "+", "2", "j">>, <<"i", "n", "f">>}
      [] m = "floats" ->
           {<<"m", "a", "x">>, <<"n", "a", "n">>, <<"1", "/", "2">>,
            <<"'", "a", "'">>}
      [] OTHER ->
           {<<"x">>, <<"f", "(", "1", ",", "2", ")">>, <<"7">>}

Names(m) ==
    CASE m = "arith" -> {<<"x">>, <<" ", "y", " ">>}
      [] m = "raise" -> {<<"x">>, <<"2", "x">>}
      [] m = "names" -> {<<"e">>, <<"m", "a", "x">>}
      [] m = "reject" -> {<<"x">>}
      [] m = "syntax" -> {<<"x">>}
      [] m = "equals" -> {<<"x">>}
      [] m = "values" -> {<<"x">>, <<"y">>}
      [] m = "floats" -> {<<"x">>}
      [] OTHER -> {<<"x">>}

\* files that exist beside the session's own: a well-formed session file, an
\* empty object, a top-level array, a text that is not JSON, and a session
\* file one of whose history records has two fields
WellFormedFile ==
    JSONFile(JObj(<<
      <<K_variables, JObj(<< <<<<"x">>, JNum(IntV(5))>>,
                             <<<<"f">>, JStr(<<"<", "l", "a", "m", "b", "d", "a", ">">>)>> >>)>>,
      <<K_history, JArr(<<JArr(<<JStr(<<"x", " ", "=", " ", "5">>), JNum(IntV(5)), JBool(TRUE)>>)>>)>>
    >>))
ShortRecordFile ==
    JSONFile(JObj(<<
      <<K_variables, JObj(<< <<<<"x">>, JNum(IntV(5))>> >>)>>,
      <<K_history, JArr(<<JArr(<<JStr(<<"x", " ", "=", " ", "5">>), JNum(IntV(5))>>)>>)>>
    >>))
ExternalFiles(m) ==
    IF m = "files"
    THEN {WellFormedFile, ShortRecordFile, JSONFile(JObj(<<>>)),
          JSONFile(JArr(<<>>)), NotJSON, Absent}
    ELSE {}

\* whether the path given to save can be opened for writing
Paths(m) == IF m = "files" THEN BOOLEAN ELSE {TRUE}

NoOp == [op |-> "none", name |-> <<>>, expr |-> <<>>, arg |-> "",
         v |-> Checked, n |-> 0, names |-> {}, calls |-> {}]
Op(op, name, expr, arg, r) ==
    [op |-> op, name |-> name, expr |-> expr, arg |-> arg,
     v |-> r.v, n |-> r.n, names |-> r.names, calls |-> r.calls]
Session(vs, hist) == [vars |-> vs, history |-> hist]

InitSession ==
    /\ vars = <<>>
    /\ history = <<>>
    /\ globals = ALLOWED_GLOBALS
    /\ file = Absent
    /\ saved = Session(<<>>, <<>>)
    /\ pre = Session(<<>>, <<>>)
    /\ last = NoOp
    /\ ops = 0

Init ==
    /\ InitSession
    /\ menu \in Menus
    /\ input = <<>>
    /\ pc = "api"

\* what every operation does beside its own effect
Step(o) ==
    /\ ops < MaxOps
    /\ ops' = ops + 1
    /\ pre' = Session(vars, history)
    /\ last' = o
    /\ UNCHANGED <<globals, menu, input, pc>>

Assign ==
    \E name \in Names(menu), expr \in Exprs(menu) :
      LET o == Calculator_assign(vars, history, globals, name, expr)
      IN  /\ Step(Op("assign", name, expr, "", o.r))
          /\ vars' = o.vars
          /\ history' = o.history
          /\ UNCHANGED <<file, saved>>

Evaluate ==
    \E expr \in Exprs(menu) :
      LET o == Calculator_evaluate(vars, history, globals, expr)
      IN  /\ Step(Op("evaluate", <<>>, expr, "", o.r))
          /\ vars' = o.vars
          /\ history' = o.history
          /\ UNCHANGED <<file, saved>>

\* Calculator.clear()
Clear ==
    /\ Step(Op("clear", <<>>, <<>>, "", Done))
    /\ vars' = <<>>
    /\ history' = <<>>
    /\ UNCHANGED <<file, saved>>

\* Calculator.save(path): open(path, 'w') fails for a path that cannot be
\* written, before anything is written
Save ==
    \E usable \in Paths(menu) :
      /\ Step(Op("save", <<>>, <<>>, IF usable THEN "session" ELSE "unusable",
                 IF usable THEN Done
                 ELSE Raised(Err("OSError", "cannot open file"))))
      /\ file' = IF usable THEN JSONFile(Calculator_save(vars, history)) ELSE file
      /\ saved' = IF usable THEN Session(vars, history) ELSE saved
      /\ UNCHANGED <<vars, history>>

\* Calculator.load(path), from the session's own file or from another file
LoadFile ==
    \E f \in {file} \cup ExternalFiles(menu) :
      LET o == Calculator_load(vars, history, f)
      IN  /\ Step(Op("load", <<>>, <<>>,
                     IF f = file THEN "session" ELSE "external", o.r))
          /\ vars' = o.vars
          /\ history' = o.history
          /\ UNCHANGED <<file, saved>>

Next == Assign \/ Evaluate \/ Clear \/ Save \/ LoadFile

Spec == Init /\ [][Next]_state


\* ------------------------------------------------------------------------
\* Properties of the session
\* ------------------------------------------------------------------------
\* the last operation was assign or evaluate
Evaluated == last.op \in {"assign", "evaluate"}
Failed == IsErr(last.v)
\* the last operation handed its expression to eval_expr
ReachedEvalExpr ==
    \/ last.op = "evaluate"
    \/ last.op = "assign" /\ isidentifier(strip(last.name))

\* every node of a tree, whatever its kind
RECURSIVE Nodes(_), NodesOfAll(_)
NodesOfAll(ns) ==
    IF ns = <<>> THEN {} ELSE Nodes(Head(ns)) \cup NodesOfAll(Tail(ns))
Nodes(n) ==
    {n} \cup
    CASE n.kind = "Expression" -> Nodes(n.body)
      [] n.kind = "BinOp" -> Nodes(n.left) \cup {n.op} \cup Nodes(n.right)
      [] n.kind = "UnaryOp" -> {n.op} \cup Nodes(n.operand)
      [] n.kind = "Name" -> {n.ctx}
      [] n.kind = "Call" ->
           Nodes(n.func) \cup NodesOfAll(n.args) \cup NodesOfAll(n.keywords)
      [] n.kind = "keyword" -> Nodes(n.value)
      [] n.kind \in {"Tuple", "List"} -> NodesOfAll(n.elts)
      [] n.kind = "Attribute" -> Nodes(n.value)
      [] n.kind = "Subscript" -> Nodes(n.value) \cup Nodes(n.slice)
      [] n.kind = "Lambda" -> Nodes(n.body)
      [] n.kind = "ListComp" -> Nodes(n.elt) \cup NodesOfAll(n.generators)
      [] n.kind = "comprehension" -> Nodes(n.target) \cup Nodes(n.iter)
      [] n.kind = "Compare" -> Nodes(n.left) \cup NodesOfAll(n.comparators)
      [] OTHER -> {}

Kinds(tree) == {n.kind : n \in Nodes(tree)}
\* the tree of the last expression, when it has one
LastParses == IsTree(ast_parse(last.expr))
LastTree == ast_parse(last.expr)

T_xy == <<"m", "a", "x", "(", "1", ",", "2", ")", "+", "x", ".", "y">>
T_import == <<"_", "_", "i", "m", "p", "o", "r", "t", "_", "_", "(", "'", "o", "s", "'", ")">>

\* C1: when assign or evaluate fails, the variables and the history are
\* exactly what they were before the call.
C1_FailureLeavesSession ==
    (Evaluated /\ Failed) => (vars = pre.vars /\ history = pre.history)

\* C1 witness: x = 1/0 fails in a session that already holds x
C1_Witness ==
    /\ last.op = "assign" /\ Failed /\ last.v.type = "ZeroDivisionError"
    /\ HasKey(vars, <<"x">>) /\ history # <<>>

\* the constructs C2 names: attribute access, subscripting, lambda,
\* comprehensions and string literals
IsStringLiteral(n) == n.kind = "Constant" /\ n.value.t = "str"
HasNamedConstruct(tree) ==
    \E n \in Nodes(tree) :
      n.kind \in {"Attribute", "Subscript", "Lambda", "ListComp"}
        \/ IsStringLiteral(n)
RejectedInValidation ==
    /\ Failed
    /\ last.v.msg = "Unsupported expression element"
    /\ last.n = 0 /\ last.names = {} /\ last.calls = {}

\* C2 (as stated): an expression containing attribute access, subscripting,
\* lambda, a comprehension or a string literal fails in validation, naming
\* the construct, and never reaches evaluation.  Violated: a string literal
\* is a Constant node, which ALLOWED_NODES accepts.
C2_NamedConstructsRejected ==
    (ReachedEvalExpr /\ LastParses /\ HasNamedConstruct(LastTree))
      => RejectedInValidation

\* C3: if a node of a kind outside the allow-list occurs anywhere in the
\* parsed tree, eval_expr fails without having evaluated a node, looked up
\* a name or invoked a callable.
C3_ValidationBeforeEvaluation ==
    (ReachedEvalExpr /\ LastParses /\ ~(Kinds(LastTree) \subseteq ALLOWED_NODES))
      => RejectedInValidation

\* C3 witness: max(1,2)+x.y, whose attribute access is nested in the right
\* operand, after a call of an allowed function, is rejected
C3_Witness ==
    /\ last.op = "evaluate" /\ last.expr = T_xy
    /\ Failed /\ last.v.msg = "Unsupported expression element"
    /\ last.v.kind = "Attribute"

\* the callables held, at any depth, by a value
RECURSIVE Callables(_)
Callables(v) ==
    IF v.t = "func" THEN {v}
    ELSE IF v.t \in {"tuple", "list"}
    THEN UNION {Callables(v.elts[i]) : i \in 1..Len(v.elts)}
    ELSE IF v.t = "dict"
    THEN UNION {Callables(v.items[i][2]) : i \in 1..Len(v.items)}
    ELSE {}

\* C4: every callable that evaluation invokes is one of the functions of
\* ALLOWED_GLOBALS, and a variable holds a callable only if it is one.
C4_OnlyBuiltinsInvoked ==
    /\ last.calls \subseteq GlobalFuncs
    /\ \A i \in 1..Len(vars) : Callables(vars[i][2]) \subseteq GlobalFuncs

\* C4 witness: e(2,3) invokes, through the variable e, the function max
C4_Witness ==
    /\ last.op = "evaluate" /\ ~Failed
    /\ HasKey(vars, N_e) /\ Get(vars, N_e) = FuncV("lambda max")
    /\ last.names = {N_e} /\ last.calls = {FuncV("lambda max")}

\* C5 (as stated): loading the file the session saved reproduces the
\* variables and the history of the moment of the save.  Violated: a tuple
\* is written as an array and loads as a list; a complex number and a
\* function are written as their str() and load as strings.
C5_RoundTrip ==
    (last.op = "load" /\ last.arg = "session" /\ ~Failed)
      => (vars = saved.vars /\ history = saved.history)

\* C6: a name present in the variables evaluates to the variable's value
\* even when a built-in of the same name exists, a name present only in the
\* globals to the built-in, a name in neither fails with NameError; after
\* clear every built-in name resolves to the built-in; the globals table
\* never changes.
C6_VariablesShadowGlobals ==
    /\ (ReachedEvalExpr /\ LastParses /\ LastTree.body.kind = "Name") =>
         LET id == LastTree.body.id
         IN  IF HasKey(pre.vars, id) THEN last.v = Get(pre.vars, id)
             ELSE IF HasKey(ALLOWED_GLOBALS, id)
             THEN last.v = Get(ALLOWED_GLOBALS, id)
             ELSE Failed /\ last.v.type = "NameError" /\ last.v.id = id
    /\ last.op = "clear" =>
         \A i \in 1..Len(ALLOWED_GLOBALS) :
           Lookup(vars, globals, ALLOWED_GLOBALS[i][1]) = ALLOWED_GLOBALS[i][2]
    /\ globals = ALLOWED_GLOBALS

\* C6 witness: after e = max(1,2), the name e evaluates to 2, not to the
\* constant e
C6_Witness ==
    /\ last.op = "evaluate" /\ last.expr = N_e
    /\ HasKey(pre.vars, N_e) /\ last.v = IntV(2)

\* C7: a successful assign evaluates expr against the pre-call variables,
\* sets variables[name] to that value, keeps every other variable, grows
\* the mapping by one key if name was new and by none otherwise, and appends
\* exactly one assignment-flagged record carrying the value.
C7_AssignFrame ==
    (last.op = "assign" /\ ~Failed) =>
      LET nm == strip(last.name)
      IN  /\ last.v = eval_expr(last.expr, pre.vars, globals).v
          /\ HasKey(vars, nm) /\ Get(vars, nm) = last.v
          /\ \A i \in 1..Len(vars) : \A j \in 1..Len(vars) :
               vars[i][1] = vars[j][1] => i = j
          /\ \A k \in Keys(pre.vars) \ {nm} :
               HasKey(vars, k) /\ Get(vars, k) = Get(pre.vars, k)
          /\ Keys(vars) = Keys(pre.vars) \cup {nm}
          /\ Len(vars) = Len(pre.vars) + (IF HasKey(pre.vars, nm) THEN 0 ELSE 1)
          /\ Len(history) = Len(pre.history) + 1
          /\ SubSeq(history, 1, Len(pre.history)) = pre.history
          /\ history[Len(history)].value = last.v
          /\ history[Len(history)].is_assignment = BoolV(TRUE)

\* C7 witness: x is assigned again, with another value
C7_Witness ==
    /\ last.op = "assign" /\ ~Failed
    /\ HasKey(pre.vars, strip(last.name))
    /\ Get(pre.vars, strip(last.name)) # last.v

\* C8: a successful evaluate leaves the variables unchanged and appends
\* exactly one non-assignment record (expression text, value) at the end of
\* the history, the earlier records unchanged.
C8_EvaluateFrame ==
    (last.op = "evaluate" /\ ~Failed) =>
      /\ vars = pre.vars
      /\ history = Append(pre.history, EvalResult(last.expr, last.v, FALSE))

\* C8 witness: an expression is evaluated in a session that has variables
\* and history
C8_Witness ==
    /\ last.op = "evaluate" /\ ~Failed
    /\ vars # <<>> /\ pre.history # <<>>


\* ------------------------------------------------------------------------
\* Arithmetic runs: eval_expr applied to every expression of at most
\* MaxTokens tokens built from the literals 2 and 3 and the operators
\* + - * / // % **
\* ------------------------------------------------------------------------
ArithLiterals == {<<"2">>, <<"3">>}
ArithOperators ==
    {<<"+">>, <<"-">>, <<"*">>, <<"/">>, <<"/", "/">>, <<"%">>, <<"*", "*">>}
ArithTokens == ArithLiterals \cup ArithOperators

\* a literal ends the expression or is followed by an operator; an operator
\* is followed by a literal or a sign; the first token is a literal or a sign
IsArithExpr(ts) ==
    /\ ts[1] \in ArithLiterals \cup SumOps
    /\ \A i \in 1..Len(ts) :
         IF ts[i] \in ArithLiterals
         THEN i = Len(ts) \/ ts[i + 1] \in ArithOperators
         ELSE i < Len(ts) /\ ts[i + 1] \in ArithLiterals \cup SumOps

\* the text of the tokens, separated by blanks
RECURSIVE JoinTokens(_)
JoinTokens(ts) ==
    IF Len(ts) = 1 THEN ts[1] ELSE ts[1] \o <<" ">> \o JoinTokens(Tail(ts))

ArithTexts ==
    {JoinTokens(ts) :
       ts \in {x \in UNION {[1..n -> ArithTokens] : n \in 1..MaxTokens} :
                 IsArithExpr(x)}}

InitArith ==
    /\ InitSession
    /\ menu = "arithmetic"
    /\ input \in ArithTexts
    /\ pc = "api"

\* SafeEvaluator.eval_expr(input)
EvalInput ==
    /\ ops = 0
    /\ ops' = 1
    /\ last' = Op("eval_expr", <<>>, input, "", eval_expr(input, vars, globals))
    /\ UNCHANGED <<vars, history, globals, file, saved, pre, menu, input, pc>>

NextArith == EvalInput

SpecArith == InitArith /\ [][NextArith]_state

\* The grouping a precedence table gives to a token sequence without
\* parentheses: split at the last binary operator of the loosest level (the
\* first, for a right-associative level).  An operator is binary when the
\* token before it is a literal, a sign otherwise.
IsBinaryAt(ts, i, opset) ==
    i > 1 /\ ts[i].k = "op" /\ ts[i].s \in opset /\ ts[i - 1].k = "num"
LastBinary(ts, opset) ==
    LET at == {i \in 1..Len(ts) : IsBinaryAt(ts, i, opset)}
    IN  IF at = {} THEN 0 ELSE CHOOSE i \in at : \A j \in at : j <= i
FirstBinary(ts, opset) ==
    LET at == {i \in 1..Len(ts) : IsBinaryAt(ts, i, opset)}
    IN  IF at = {} THEN 0 ELSE CHOOSE i \in at : \A j \in at : j >= i
PowOps == {<<"*", "*">>}

\* loosest to tightest: + -, then * / // %, then the signs, then **
\* (so that a sign before a power applies to the power, and a sign in an
\* exponent to the exponent's operand)
RECURSIVE GroupSignBelowPower(_)
GroupSignBelowPower(ts) ==
    LET i == LastBinary(ts, SumOps)
        j == LastBinary(ts, TermOps)
        k == FirstBinary(ts, PowOps)
        split(at) == BinOp(GroupSignBelowPower(SubSeq(ts, 1, at - 1)),
                           OpKind(ts[at].s),
                           GroupSignBelowPower(SubSeq(ts, at + 1, Len(ts))))
    IN  IF Len(ts) = 1 THEN Constant(IntV(ts[1].n))
        ELSE IF i > 0 THEN split(i)
        ELSE IF j > 0 THEN split(j)
        ELSE IF ts[1].k = "op"
        THEN UnaryOp(UnaryKind(ts[1].s), GroupSignBelowPower(Tail(ts)))
        ELSE split(k)

\* loosest to tightest: + -, then * / // %, then **, then the signs
RECURSIVE GroupSignTightest(_)
GroupSignTightest(ts) ==
    LET i == LastBinary(ts, SumOps)
        j == LastBinary(ts, TermOps)
        k == FirstBinary(ts, PowOps)
        split(at) == BinOp(GroupSignTightest(SubSeq(ts, 1, at - 1)),
                           OpKind(ts[at].s),
                           GroupSignTightest(SubSeq(ts, at + 1, Len(ts))))
    IN  IF Len(ts) = 1 THEN Constant(IntV(ts[1].n))
        ELSE IF i > 0 THEN split(i)
        ELSE IF j > 0 THEN split(j)
        ELSE IF k > 0 THEN split(k)
        ELSE UnaryOp(UnaryKind(ts[1].s), GroupSignTightest(Tail(ts)))

Applied == last.op = "eval_expr"
T_neg_sq == <<"-", " ", "2", " ", "*", "*", " ", "2">>

\* C9 (as stated): eval_expr returns the value of the grouping in which
\* unary + and - bind tightest, then **, then * / // %, then + and -.
\* Violated by - 2 ** 2, which the code evaluates to -4, not 4.
C9_SignBindsTightest ==
    Applied => last.v = _eval(GroupSignTightest(Tokenize(input)), vars, globals).v

\* C9 (amended): ** binds tighter than a sign on its left and looser than a
\* sign in its exponent; with that, the tree eval_expr builds and the value
\* it returns are those of the grouping: + and - loosest and to the left,
\* then * / // % to the left, then the signs, then ** to the right.
C9_PowerBindsTighterThanSign ==
    Applied =>
      /\ ast_parse(input) = Expression(GroupSignBelowPower(Tokenize(input)))
      /\ last.v = _eval(GroupSignBelowPower(Tokenize(input)), vars, globals).v

\* C9 witness: - 2 ** 2 has been evaluated, to -4
C9_Witness == Applied /\ input = T_neg_sq /\ last.v = IntV(-4)


\* ------------------------------------------------------------------------
\* repl(): one action per kind of line read at the prompt
\* ------------------------------------------------------------------------
\* str.split(): the words of s, separated by runs of blanks
RECURSIVE split(_)
split(s) ==
    LET t == lstrip(s)
        n == IF Find(t, " ") = 0 THEN Len(t) ELSE Find(t, " ") - 1
    IN  IF t = <<>> THEN <<>>
        ELSE <<SubSeq(t, 1, n)>> \o split(From(t, n + 1))

\* sub in s
Contains(s, sub) ==
    \E i \in 1..(Len(s) - Len(sub) + 1) : SubSeq(s, i, i + Len(sub) - 1) = sub

\* line.split('=', 1) of a line that holds an '='
SplitAtFirstEquals(line) ==
    LET i == Find(line, "=")
    IN  <<SubSeq(line, 1, i - 1), From(line, i + 1)>>

\* the files of the directory the session runs in: s is the session's own
\* file; w, b and t exist and are read-only; no other path can be opened
SessionPath == <<"s">>
PathWritable(p) == p = SessionPath
FileAt(p, f) ==
    CASE p = SessionPath -> f
      [] p = <<"w">> -> WellFormedFile
      [] p = <<"b">> -> ShortRecordFile
      [] p = <<"t">> -> NotJSON
      [] OTHER -> Absent

\* the lines typed at the prompt: every line of at most MaxLine characters
\* over LineAlphabet in the sessions of menu "typed", a few chosen lines in
\* the others
LineAlphabet == {"x", "1", "=", " "}
TypedLines == UNION {[1..n -> LineAlphabet] : n \in 0..MaxLine}
ReplMenus == {"typed", "commands", "storage", "calls"}
Lines(m) ==
    CASE m = "typed" -> TypedLines
      [] m = "commands" ->
           {<<":", "h", "e", "l", "p">>, <<":", "v", "a", "r", "s">>, <<" ", ":", "h", "i", "s", "t">>, <<":", "c", "l", "e", "a", "r">>, <<":", "q">>, <<":", "q", "u", "i", "t">>, <<":", "e", "x", "i", "t">>, <<":", "n", "o", "p", "e">>,
            <<":">>, <<"x", " ", "=", " ", "5">>}
      [] m = "storage" ->
           {<<":", "s", "a", "v", "e">>, <<":", "s", "a", "v", "e", " ", "s">>, <<":", "s", "a", "v", "e", " ", "w">>, <<":", "l", "o", "a", "d">>, <<":", "l", "o", "a", "d", " ", " ", "s">>, <<":", "l", "o", "a", "d", " ", "w">>, <<":", "l", "o", "a", "d", " ", "b">>,
            <<":", "l", "o", "a", "d", " ", "t">>, <<":", "l", "o", "a", "d", " ", "n">>, <<"x", "=", "(", "1", ",", "2", ")">>}
      [] OTHER ->
           {<<"m", "a", "x", "(", "a", "=", "1", ",", "b", "=", "2", ")">>, <<"s", "u", "m", "(", "1", ",", "x", "=", "2", ")">>, <<"1", " ", "=", "=", " ", "1">>, <<"x", " ", "=", " ", "1", " ", "=", "=", " ", "1">>, <<"s", "u", "m", "(", "1", ",", "2", ")">>, <<"1", "/", "0">>, <<"_", "_", "i", "m", "p", "o", "r", "t", "_", "_", "(", "'", "o", "s", "'", ")">>}

InitRepl ==
    /\ InitSession
    /\ menu \in ReplMenus
    /\ input = <<>>
    /\ pc = "prompt"

MayRead ==
    /\ pc = "prompt"
    /\ ops < (IF menu = "typed" THEN MaxTyped ELSE MaxReplLines)

\* what every turn of the loop does beside its own effect; printed is what
\* the turn writes to the terminal
Turn(raw, o) ==
    /\ ops' = ops + 1
    /\ pre' = Session(vars, history)
    /\ input' = raw
    /\ last' = o
    /\ UNCHANGED <<globals, menu>>

\* a line that is empty once stripped: nothing happens
ReplBlank ==
    \E raw \in Lines(menu) :
      /\ MayRead
      /\ strip(raw) = <<>>
      /\ Turn(raw, Op("blank", <<>>, <<>>, "nothing", Done))
      /\ UNCHANGED <<vars, history, file, saved, pc>>

C_help == <<"h", "e", "l", "p">>
C_vars == <<"v", "a", "r", "s">>
C_hist == <<"h", "i", "s", "t">>
C_clear == <<"c", "l", "e", "a", "r">>
C_save == <<"s", "a", "v", "e">>
C_load == <<"l", "o", "a", "d">>
C_quit == {<<"q", "u", "i", "t">>, <<"q">>, <<"e", "x", "i", "t">>}

\* a line that starts with ':'.  An exception of save or load is caught by
\* no handler of the loop and ends repl().
ReplCommand ==
    \E raw \in Lines(menu) :
      LET line == strip(raw)
          parts == split(line)
          cmd == Tail(parts[1])
          path == parts[2]
          ld == Calculator_load(vars, history, FileAt(path, file))
          sv == IF PathWritable(path) THEN Done
                ELSE Raised(Err("OSError", "cannot open file"))
      IN  /\ MayRead
          /\ line # <<>> /\ Head(line) = ":"
          /\ IF cmd = C_help THEN
               /\ Turn(raw, Op("help", <<>>, <<>>, "help", Done))
               /\ UNCHANGED <<vars, history, file, saved, pc>>
             ELSE IF cmd \in {C_vars, C_hist} THEN
               /\ Turn(raw, Op("list", <<>>, <<>>, "listing", Done))
               /\ UNCHANGED <<vars, history, file, saved, pc>>
             ELSE IF cmd = C_clear THEN
               /\ Turn(raw, Op("clear", <<>>, <<>>, "cleared", Done))
               /\ vars' = <<>>
               /\ history' = <<>>
               /\ UNCHANGED <<file, saved, pc>>
             ELSE IF cmd \in {C_save, C_load} /\ Len(parts) < 2 THEN
               /\ Turn(raw, Op("usage", <<>>, <<>>, "usage", Done))
               /\ UNCHANGED <<vars, history, file, saved, pc>>
             ELSE IF cmd = C_save THEN
               /\ Turn(raw, Op("save", <<>>, <<>>,
                               IF IsErr(sv.v) THEN "traceback" ELSE "saved", sv))
               /\ file' = IF IsErr(sv.v) THEN file
                          ELSE JSONFile(Calculator_save(vars, history))
               /\ saved' = IF IsErr(sv.v) THEN saved ELSE Session(vars, history)
               /\ pc' = IF IsErr(sv.v) THEN "crashed" ELSE pc
               /\ UNCHANGED <<vars, history>>
             ELSE IF cmd = C_load THEN
               /\ Turn(raw, Op("load", <<>>, <<>>,
                               IF IsErr(ld.r.v) THEN "traceback" ELSE "loaded", ld.r))
               /\ vars' = ld.vars
               /\ history' = ld.history
               /\ pc' = IF IsErr(ld.r.v) THEN "crashed" ELSE pc
               /\ UNCHANGED <<file, saved>>
             ELSE IF cmd \in C_quit THEN
               /\ Turn(raw, Op("quit", <<>>, <<>>, "bye", Done))
               /\ pc' = "exited"
               /\ UNCHANGED <<vars, history, file, saved>>
             ELSE
               /\ Turn(raw, Op("unknown", <<>>, <<>>, "unknown command", Done))
               /\ UNCHANGED <<vars, history, file, saved, pc>>

\* the test the loop makes before it treats a line as an assignment
IsAssignmentLine(line) == Contains(line, <<"=">>) /\ ~Contains(line, <<"=", "=">>)

\* a line taken as name = expr: split at the first '=', then calc.assign
ReplAssign ==
    \E raw \in Lines(menu) :
      LET line == strip(raw)
          lhs == SplitAtFirstEquals(line)[1]
          rhs == SplitAtFirstEquals(line)[2]
          o == Calculator_assign(vars, history, globals, lhs, rhs)
      IN  /\ MayRead
          /\ line # <<>> /\ Head(line) # ":"
          /\ IsAssignmentLine(line)
          /\ Turn(raw, Op("assign", lhs, rhs,
                          IF IsErr(o.r.v) THEN "error" ELSE "value", o.r))
          /\ vars' = o.vars
          /\ history' = o.history
          /\ UNCHANGED <<file, saved, pc>>

\* any other line: calc.evaluate
ReplEvaluate ==
    \E raw \in Lines(menu) :
      LET line == strip(raw)
          o == Calculator_evaluate(vars, history, globals, line)
      IN  /\ MayRead
          /\ line # <<>> /\ Head(line) # ":"
          /\ ~IsAssignmentLine(line)
          /\ Turn(raw, Op("evaluate", <<>>, line,
                          IF IsErr(o.r.v) THEN "error" ELSE "value", o.r))
          /\ vars' = o.vars
          /\ history' = o.history
          /\ UNCHANGED <<file, saved, pc>>

\* Ctrl+C or end of input at the prompt
ReplInterrupt ==
    /\ pc = "prompt"
    /\ pc' = "exited"
    /\ last' = Op("interrupt", <<>>, <<>>, "bye", Done)
    /\ pre' = Session(vars, history)
    /\ UNCHANGED <<vars, history, globals, file, saved, ops, menu, input>>

NextRepl == ReplBlank \/ ReplCommand \/ ReplAssign \/ ReplEvaluate \/ ReplInterrupt

SpecRepl == InitRepl /\ [][NextRepl]_state


\* the stripped line of the last turn, and how many '=' it holds
LastLine == strip(input)
CountEquals(line) == Cardinality({i \in 1..Len(line) : line[i] = "="})
Routed == last.op \in {"assign", "evaluate"}

\* C10 (as stated): a line that is neither blank nor a command goes to
\* assign exactly when it holds a single '=', and to evaluate otherwise, so
\* that a line with more than one '=' (a call with keyword arguments) goes
\* to evaluate.  Violated by max(a=1,b=2), which the loop hands to assign.
C10_SingleEqualsRoutesToAssign ==
    Routed => ((last.op = "assign") <=> (CountEquals(LastLine) = 1))


\* C11 (as stated): whatever fails while a line is handled is caught: the
\* loop prints a one-line error and is back at the prompt, and it has ended
\* only after :quit, :q, :exit, a keyboard interrupt or the end of input.
\* Violated by :load n, n a file that does not exist: no handler of the
\* loop catches the exception of calc.load, and repl() ends with it.
C11_ReplCatchesEveryFailure ==
    /\ Failed => (pc = "prompt" /\ last.arg = "error")
    /\ pc # "prompt" => last.op \in {"quit", "interrupt"}

\* C12 (as stated): when load fails, the variables and the history are
\* what they were before the call.  Violated by a file one of whose history
\* records has two fields: the variables are the file's, the history is
\* the old one.
C12_LoadAllOrNothing ==
    (last.op = "load" /\ Failed) => (vars = pre.vars /\ history = pre.history)

====
